---- MODULE Spec2Model ----
(***************************************************************************)
(* Model of setup.py of EarthSim: the version resolver get_setup_version   *)
(* with its remote-fetch fallback embed_version, the dependency lists and  *)
(* the metadata record setup_args handed to setuptools.setup.              *)
(*                                                                         *)
(* One run of the script is one behaviour.  pc holds the source line the   *)
(* interpreter is about to execute.  Everything outside the script (the    *)
(* import system, the network, the archive served, the file system's       *)
(* willingness to open and write, the helper's setup_version) is drawn     *)
(* nondeterministically where the code touches it.                         *)
(***************************************************************************)
EXTENDS Integers, Sequences, FiniteSets, TLC

VARIABLES pc, version, ref, response, zf, embedded, disk, disk0, stdout,
          events, outcome, setup_args, handed, run

vars == <<pc, version, ref, response, zf, embedded, disk, disk0, stdout,
          events, outcome, setup_args, handed, run>>

\* the script is run at most MaxRuns times over the same directory
MaxRuns == 2

----------------------------------------------------------------------------
(* Python values *)

None == "None"

\* a JSON / Python scalar or flat container, in one record shape
PyStr(s) == [type |-> "str", s |-> s, members |-> <<>>]
PyNum(s) == [type |-> "num", s |-> s, members |-> <<>>]
PyObj(m) == [type |-> "obj", s |-> "", members |-> m]
PyArr(m) == [type |-> "arr", s |-> "", members |-> m]
NoVal    == [type |-> "none", s |-> "", members |-> <<>>]

----------------------------------------------------------------------------
(* Paths: os.path.join is the concatenation of the components *)

join(p, rest) == p \o rest

\* os.path.split(__file__)[0]
basepath == <<"base">>

\* the argument of the call at line 105
reponame == "EarthSim"

\* the files of the source directory that matter: the persisted version
\* file of the package, a .version file next to setup.py (which the code
\* never reads) and the helper module next to setup.py
Paths == {<<"base", "EarthSim", ".version">>, <<"base", ".version">>,
          <<"base", "version.py">>}

\* the package directory is left out of the path
version_file_path_no_package == join(basepath, <<".version">>)

\* line 37
version_file_path == join(basepath, <<reponame, ".version">>)

\* line 24
embed_path == join(basepath, <<"version.py">>)

archive_commit == "$Format:%h$"

setup_version_args == <<"base", reponame, archive_commit>>

WARNING == "WARNING: param>=1.6.0 unavailable."

----------------------------------------------------------------------------
(* Files: the text of a file is a sequence of tokens *)

Tok(t)  == [t |-> t, v |-> ""]
StrTok(v) == [t |-> "str", v |-> v]
NumTok(v) == [t |-> "num", v |-> v]
SrcTok(v) == [t |-> "src", v |-> v]

File(text) == [exists |-> TRUE, text |-> text]
Absent     == [exists |-> FALSE, text |-> <<>>]

(* json.load: a document is a scalar, a flat array or a flat object *)

Good(val) == [ok |-> TRUE, val |-> val]
Bad       == [ok |-> FALSE, val |-> NoVal]

IsScalarTok(tok) == tok.t \in {"str", "num"}
ScalarVal(tok) == IF tok.t = "str" THEN PyStr(tok.v) ELSE PyNum(tok.v)

RECURSIVE ParseMembers(_, _, _)
ParseMembers(toks, i, acc) ==
    IF i + 3 > Len(toks) THEN Bad
    ELSE IF toks[i].t # "str" \/ toks[i+1].t # ":" \/ ~IsScalarTok(toks[i+2])
    THEN Bad
    ELSE LET acc2 == Append(acc, [key |-> toks[i].v, val |-> ScalarVal(toks[i+2])])
         IN  IF toks[i+3].t = "}"
             THEN IF i + 3 = Len(toks) THEN Good(PyObj(acc2)) ELSE Bad
             ELSE IF toks[i+3].t = ","
             THEN ParseMembers(toks, i + 4, acc2)
             ELSE Bad

RECURSIVE ParseItems(_, _, _)
ParseItems(toks, i, acc) ==
    IF i + 1 > Len(toks) THEN Bad
    ELSE IF ~IsScalarTok(toks[i]) THEN Bad
    ELSE LET acc2 == Append(acc, [key |-> "", val |-> ScalarVal(toks[i])])
         IN  IF toks[i+1].t = "]"
             THEN IF i + 1 = Len(toks) THEN Good(PyArr(acc2)) ELSE Bad
             ELSE IF toks[i+1].t = ","
             THEN ParseItems(toks, i + 2, acc2)
             ELSE Bad

json_load(toks) ==
    IF Len(toks) = 0 THEN Bad
    ELSE IF toks[1].t = "{"
    THEN IF Len(toks) = 2 /\ toks[2].t = "}" THEN Good(PyObj(<<>>))
         ELSE ParseMembers(toks, 2, <<>>)
    ELSE IF toks[1].t = "["
    THEN IF Len(toks) = 2 /\ toks[2].t = "]" THEN Good(PyArr(<<>>))
         ELSE ParseItems(toks, 2, <<>>)
    ELSE IF IsScalarTok(toks[1]) /\ Len(toks) = 1 THEN Good(ScalarVal(toks[1]))
    ELSE Bad

\* a dict.get-style lookup: a missing key or a non-dict yields None
getitem_get(val, key) ==
    LET hits == {i \in 1..Len(val.members) : val.members[i].key = key}
    IN  IF val.type = "obj" /\ hits # {}
        THEN [ok |-> TRUE, val |-> val.members[CHOOSE i \in hits : \A j \in hits : j <= i].val,
              exc |-> ""]
        ELSE [ok |-> TRUE, val |-> PyStr(None), exc |-> ""]

\* val[key]: a dict built by json.load keeps the last of duplicate keys
getitem(val, key) ==
    LET hits == {i \in 1..Len(val.members) : val.members[i].key = key}
    IN  IF val.type # "obj" THEN [ok |-> FALSE, val |-> NoVal, exc |-> "TypeError"]
        ELSE IF hits = {} THEN [ok |-> FALSE, val |-> NoVal, exc |-> "KeyError"]
        ELSE [ok |-> TRUE, val |-> val.members[CHOOSE i \in hits : \A j \in hits : j <= i].val,
              exc |-> ""]

----------------------------------------------------------------------------
(* What the directory may hold when the script starts *)

Versions == {"1.2.3", "0.1.0-4-gabc"}

LB == Tok("{")
RB == Tok("}")
COLON == Tok(":")
COMMA == Tok(",")

VersionFileTexts ==
    {<<LB, StrTok("version_string"), COLON, StrTok(v), RB>> : v \in Versions}
    \cup {<<LB, StrTok("git_describe"), COLON, StrTok("v9"), COMMA,
            StrTok("version_string"), COLON, StrTok(v), RB>> : v \in Versions}
    \cup {<<LB, StrTok("version_string"), COLON, StrTok("0.0.1"), COMMA,
            StrTok("version_string"), COLON, StrTok("1.2.3"), RB>>,
          <<LB, StrTok("version_string"), COLON, NumTok("7"), RB>>,
          <<LB, StrTok("version"), COLON, StrTok("1.2.3"), RB>>,
          <<LB, RB>>,
          <<LB, StrTok("version_string"), COLON, StrTok("1.2.3")>>,
          <<LB, StrTok("version_string"), StrTok("1.2.3"), RB>>,
          <<Tok("["), StrTok("1.2.3"), Tok("]")>>,
          <<StrTok("1.2.3")>>,
          <<>>}

HelperSrc == <<SrcTok("helper")>>
BrokenSrc == <<SrcTok("broken")>>

\* whether importing a module with this source text succeeds
Loadable(text) == text = HelperSrc

(* What the remote end may serve *)

Archive(valid, name, data) == [valid |-> valid, name |-> name, data |-> data]
NoArchive == Archive(FALSE, <<>>, <<>>)

Archives ==
    {Archive(TRUE, <<"autover-", "0", ".", "2", ".", "2", "/autover/version.py">>, HelperSrc),
     Archive(TRUE, <<"autover-", "0", ".", "2", ".", "2", "/autover/version.py">>, BrokenSrc),
     Archive(TRUE, <<"autover-", "v", "0", ".", "2", ".", "2", "/autover/version.py">>, HelperSrc),
     Archive(FALSE, <<>>, <<>>)}


----------------------------------------------------------------------------
(* The dependency lists *)

Lit(s, comma) == [lit |-> s, comma |-> comma]

\* the string literals between the brackets of install_requires, each with
\* whether a comma follows it
install_requires_source ==
    << Lit("param >= 1.6", FALSE), Lit("fiona", TRUE), Lit("rasterio", TRUE),
       Lit("gdal", TRUE), Lit("json-rpc", TRUE), Lit("ulmo >=0.8.3.2", TRUE),
       Lit("pyyaml", TRUE), Lit("matplotlib", TRUE), Lit("click", TRUE),
       Lit("werkzeug", TRUE), Lit("peewee", TRUE), Lit("geopandas", TRUE),
       Lit("psutil", TRUE), Lit("pint", TRUE), Lit("pony", TRUE),
       Lit("scikit-image", TRUE), Lit("go-spatial", TRUE), Lit("jupyter", TRUE),
       Lit("descartes", TRUE), Lit("gsshapy", TRUE), Lit("cartopy", TRUE),
       Lit("bokeh", TRUE), Lit("xarray", TRUE), Lit("gssha", TRUE),
       Lit("datashader", TRUE), Lit("filigree", TRUE), Lit("param", TRUE),
       Lit("parambokeh", TRUE), Lit("paramnb", TRUE), Lit("numpy", TRUE),
       Lit("stevedore", FALSE) >>

\* a list display: adjacent string literals with no comma between them are
\* concatenated into one element
RECURSIVE list_display(_, _, _, _)
list_display(lits, i, pending, acc) ==
    IF i > Len(lits) THEN acc
    ELSE LET str == pending \o lits[i].lit
         IN  IF lits[i].comma \/ i = Len(lits)
             THEN list_display(lits, i + 1, "", Append(acc, str))
             ELSE list_display(lits, i + 1, str, acc)

install_requires == list_display(install_requires_source, 1, "", <<>>)

\* the 'docs' group is lost
extras_require_dropped == [tests |-> <<"nbsmoke">>]

extras_require == [tests |-> <<"nbsmoke">>, docs |-> <<"nbsite">>]

EmptyArgs ==
    [name |-> "", version |-> NoVal, install_requires |-> <<>>,
     extras_require |-> [tests |-> <<>>, docs |-> <<>>], tests_require |-> <<>>,
     python_requires |-> ""]

----------------------------------------------------------------------------
(* State *)

Ev(op, arg, ok) == [op |-> op, arg |-> arg, ok |-> ok]

Running == [kind |-> "running", val |-> NoVal, exc |-> "", line |-> 0]
Return(val, line) == [kind |-> "return", val |-> val, exc |-> "", line |-> line]
Raise(exc, line)  == [kind |-> "raise", val |-> NoVal, exc |-> exc, line |-> line]

\* the default of embed_version's parameter ref
default_ref == <<"v", "0", ".", "2", ".", "2">>

Init ==
    /\ pc = "L39"
    /\ version = None
    /\ ref = default_ref
    /\ response = NoArchive
    /\ zf = NoArchive
    /\ embedded = <<>>
    /\ \E vf \in {Absent} \cup {File(t) : t \in VersionFileTexts},
          ef \in {Absent, File(BrokenSrc)},
          df \in {Absent, File(<<LB, StrTok("version_string"), COLON, StrTok("9.9.9"), RB>>)} :
          disk = [p \in Paths |-> IF p = <<"base", "EarthSim", ".version">> THEN vf
                                  ELSE IF p = <<"base", "version.py">> THEN ef
                                  ELSE df]
    /\ disk0 = disk
    /\ stdout = <<>>
    /\ events = <<>>
    /\ outcome = Running
    /\ setup_args = EmptyArgs
    /\ handed = EmptyArgs
    /\ run = 1

----------------------------------------------------------------------------
(* get_setup_version, lines 38-41: the import of the installed helper *)

\* the warning is printed as soon as the import fails
GSV_import_warn ==
    /\ pc = "L39"
    /\ \E ok \in BOOLEAN :
          /\ events' = Append(events, Ev("import", <<"param.version">>, ok))
          /\ IF ok THEN /\ version' = "param.version"
                        /\ pc' = "L42"
                        /\ stdout' = stdout
                   ELSE /\ version' = version
                        /\ pc' = "L20"
                        /\ stdout' = Append(stdout, WARNING)
    /\ UNCHANGED <<ref, response, zf, embedded, disk, disk0, outcome,
                   setup_args, handed, run>>

GSV_import ==
    /\ pc = "L39"
    /\ \E ok \in BOOLEAN :
          /\ events' = Append(events, Ev("import", <<"param.version">>, ok))
          /\ IF ok THEN /\ version' = "param.version"
                        /\ pc' = "L42"
                   ELSE /\ version' = version
                        /\ pc' = "L20"
    /\ UNCHANGED <<ref, response, zf, embedded, disk, disk0, stdout, outcome,
                   setup_args, handed, run>>

----------------------------------------------------------------------------
(* embed_version *)

\* the exception leaves embed_version and get_setup_version
EV_except_reraise(ev) ==
    /\ events' = Append(events, ev)
    /\ version' = version
    /\ outcome' = Raise(ev.op, 41)
    /\ pc' = "raised"

\* lines 27-28 and the assignment of line 41: any exception makes
\* embed_version return None
EV_except(ev) ==
    /\ events' = Append(events, ev)
    /\ version' = None
    /\ outcome' = outcome
    /\ pc' = "L42"

url(r) == <<"https://github.com/ioam/autover/archive/">> \o r \o <<".zip">>

\* the file is opened for writing before the request is made
EV_urlopen_open_first ==
    /\ pc = "L20"
    /\ \E a \in Archives, ok \in BOOLEAN :
          IF ok THEN /\ response' = a
                     /\ events' = Append(events, Ev("urlopen", url(ref), TRUE))
                     /\ pc' = "L21"
                     /\ UNCHANGED <<version, outcome>>
                ELSE /\ response' = response
                     /\ EV_except(Ev("urlopen", url(ref), FALSE))
    /\ disk' = [disk EXCEPT ![embed_path] = File(<<>>)]
    /\ UNCHANGED <<ref, zf, embedded, disk0, stdout, setup_args, handed, run>>

\* lines 19-20
EV_urlopen ==
    /\ pc = "L20"
    /\ \E a \in Archives, ok \in BOOLEAN :
          IF ok THEN /\ response' = a
                     /\ events' = Append(events, Ev("urlopen", url(ref), TRUE))
                     /\ pc' = "L21"
                     /\ UNCHANGED <<version, outcome>>
                ELSE /\ response' = response
                     /\ EV_except(Ev("urlopen", url(ref), FALSE))
    /\ UNCHANGED <<ref, zf, embedded, disk, disk0, stdout, setup_args, handed, run>>

\* line 21: response.read() may fail, and ZipFile rejects what is no archive
EV_ZipFile ==
    /\ pc = "L21"
    /\ \E readok \in BOOLEAN :
          IF readok /\ response.valid
          THEN /\ zf' = response
               /\ events' = Append(events, Ev("ZipFile", <<>>, TRUE))
               /\ pc' = "L22"
               /\ UNCHANGED <<version, outcome>>
          ELSE /\ zf' = zf
               /\ EV_except(Ev("ZipFile", <<>>, FALSE))
    /\ UNCHANGED <<ref, response, embedded, disk, disk0, stdout, setup_args,
                   handed, run>>

startswith(r, c) == Len(r) > 0 /\ r[1] = c

member(r) == <<"autover-">> \o r \o <<"/autover/version.py">>

\* lines 22-23
EV_zf_read ==
    /\ pc = "L22"
    /\ LET r == IF startswith(ref, "v") THEN Tail(ref) ELSE ref
       IN  /\ ref' = r
           /\ IF zf.name = member(r)
              THEN /\ embedded' = zf.data
                   /\ events' = Append(events, Ev("zf.read", member(r), TRUE))
                   /\ pc' = "L24"
                   /\ UNCHANGED <<version, outcome>>
              ELSE /\ embedded' = embedded
                   /\ EV_except(Ev("zf.read", member(r), FALSE))
    /\ UNCHANGED <<response, zf, disk, disk0, stdout, setup_args, handed, run>>

\* line 24: open(..., 'wb') creates or truncates the file
EV_open ==
    /\ pc = "L24"
    /\ \E ok \in BOOLEAN :
          IF ok THEN /\ disk' = [disk EXCEPT ![embed_path] = File(<<>>)]
                     /\ events' = Append(events, Ev("open_wb", embed_path, TRUE))
                     /\ pc' = "L25"
                     /\ UNCHANGED <<version, outcome>>
                ELSE /\ disk' = disk
                     /\ EV_except(Ev("open_wb", embed_path, FALSE))
    /\ UNCHANGED <<ref, response, zf, embedded, disk0, stdout, setup_args,
                   handed, run>>

\* line 25 and the end of the with block
EV_write ==
    /\ pc = "L25"
    /\ \E ok \in BOOLEAN :
          IF ok THEN /\ disk' = [disk EXCEPT ![embed_path] = File(embedded)]
                     /\ events' = Append(events, Ev("write", embed_path, TRUE))
                     /\ pc' = "L26"
                     /\ UNCHANGED <<version, outcome>>
                ELSE /\ disk' = disk
                     /\ EV_except(Ev("write", embed_path, FALSE))
    /\ UNCHANGED <<ref, response, zf, embedded, disk0, stdout, setup_args,
                   handed, run>>

\* line 26: the import succeeds when the directory is on the import path and
\* the written source loads
EV_import ==
    /\ pc = "L26"
    /\ \E onpath \in BOOLEAN :
          IF onpath /\ Loadable(disk[embed_path].text)
          THEN /\ version' = "version"
               /\ events' = Append(events, Ev("import", <<"version">>, TRUE))
               /\ pc' = "L42"
               /\ UNCHANGED outcome
          ELSE EV_except(Ev("import", <<"version">>, FALSE))
    /\ UNCHANGED <<ref, response, zf, embedded, disk, disk0, stdout, setup_args,
                   handed, run>>


----------------------------------------------------------------------------
(* get_setup_version, lines 42-46 *)

\* the persisted file is read whether or not a helper was obtained
GSV_branch_always_file ==
    /\ pc = "L42"
    /\ pc' = "L45"
    /\ UNCHANGED <<version, ref, response, zf, embedded, disk, disk0, stdout,
                   events, outcome, setup_args, handed, run>>

\* line 42
GSV_branch ==
    /\ pc = "L42"
    /\ pc' = IF version # None THEN "L43" ELSE "L45"
    /\ UNCHANGED <<version, ref, response, zf, embedded, disk, disk0, stdout,
                   events, outcome, setup_args, handed, run>>

\* line 43: the helper's setup_version returns a version string or raises
\* (a module without Version.setup_version raises AttributeError)
GSV_setup_version ==
    /\ pc = "L43"
    /\ \E r \in Versions \cup {"raise"} :
          /\ events' = Append(events,
                 Ev("setup_version", <<version>> \o setup_version_args \o <<r>>,
                    r # "raise"))
          /\ IF r # "raise"
             THEN /\ outcome' = Return(PyStr(r), 43)
                  /\ pc' = "L103"
             ELSE /\ outcome' = Raise("setup_version", 43)
                  /\ pc' = "raised"
    /\ UNCHANGED <<version, ref, response, zf, embedded, disk, disk0, stdout,
                   setup_args, handed, run>>

\* the warning is left out
GSV_print_silent ==
    /\ pc = "L45"
    /\ pc' = "L46"
    /\ UNCHANGED <<version, ref, response, zf, embedded, disk, disk0, stdout,
                   events, outcome, setup_args, handed, run>>

\* line 45
GSV_print ==
    /\ pc = "L45"
    /\ stdout' = Append(stdout, WARNING)
    /\ events' = Append(events, Ev("print", <<WARNING>>, TRUE))
    /\ pc' = "L46"
    /\ UNCHANGED <<version, ref, response, zf, embedded, disk, disk0, outcome,
                   setup_args, handed, run>>

\* the result of json.load(open(path, 'r'))['version_string']
read_version_string(path) ==
    IF ~disk[path].exists THEN Raise("FileNotFoundError", 46)
    ELSE LET doc == json_load(disk[path].text)
         IN  IF ~doc.ok THEN Raise("ValueError", 46)
             ELSE LET item == getitem(doc.val, "version_string")
                  IN  IF item.ok THEN Return(item.val, 46)
                      ELSE Raise(item.exc, 46)

\* line 46
GSV_read ==
    /\ pc = "L46"
    /\ LET res == read_version_string(version_file_path)
       IN  /\ outcome' = res
           /\ events' = Append(events,
                  Ev("read", version_file_path, res.kind = "return"))
           /\ pc' = IF res.kind = "return" THEN "L103" ELSE "raised"
    /\ UNCHANGED <<version, ref, response, zf, embedded, disk, disk0, stdout,
                   setup_args, handed, run>>

----------------------------------------------------------------------------
(* The metadata record, lines 101-115 *)

\* lines 101-112, once get_setup_version("EarthSim") has returned
Build_setup_args ==
    /\ pc = "L103"
    /\ setup_args' = [name |-> "earthsim",
                      version |-> outcome.val,
                      install_requires |-> install_requires,
                      extras_require |-> extras_require,
                      tests_require |-> extras_require["tests"],
                      python_requires |-> ">=3.5"]
    /\ pc' = "L114"
    /\ UNCHANGED <<version, ref, response, zf, embedded, disk, disk0, stdout,
                   events, outcome, handed, run>>

\* lines 114-115: setup is called when the file is run as a script
Setup ==
    /\ pc = "L114"
    /\ \E main \in BOOLEAN :
          handed' = IF main THEN setup_args ELSE handed
    /\ pc' = "done"
    /\ UNCHANGED <<version, ref, response, zf, embedded, disk, disk0, stdout,
                   events, outcome, setup_args, run>>

\* the script is run again, in a new process, over the directory as the
\* previous run left it
Rerun ==
    /\ pc \in {"done", "raised"}
    /\ run < MaxRuns
    /\ run' = run + 1
    /\ pc' = "L39"
    /\ version' = None
    /\ ref' = default_ref
    /\ response' = NoArchive
    /\ zf' = NoArchive
    /\ embedded' = <<>>
    /\ disk0' = disk
    /\ stdout' = <<>>
    /\ events' = <<>>
    /\ outcome' = Running
    /\ setup_args' = EmptyArgs
    /\ handed' = EmptyArgs
    /\ UNCHANGED disk

Next ==
    \/ GSV_import
    \/ EV_urlopen
    \/ EV_ZipFile
    \/ EV_zf_read
    \/ EV_open
    \/ EV_write
    \/ EV_import
    \/ GSV_branch
    \/ GSV_setup_version
    \/ GSV_print
    \/ GSV_read
    \/ Build_setup_args
    \/ Setup
    \/ Rerun

Spec == Init /\ [][Next]_vars


----------------------------------------------------------------------------
(* Observations on one run *)

Happened(op, ok) == \E i \in 1..Len(events) : events[i].op = op /\ events[i].ok = ok

ParamImported == \E i \in 1..Len(events) : events[i] = Ev("import", <<"param.version">>, TRUE)
ParamMissing  == \E i \in 1..Len(events) : events[i] = Ev("import", <<"param.version">>, FALSE)
EmbedImported == \E i \in 1..Len(events) : events[i] = Ev("import", <<"version">>, TRUE)

\* the steps of embed_version
EmbedOps == {"urlopen", "ZipFile", "zf.read", "open_wb", "write"}

IsEmbedFailure(e) ==
    /\ ~e.ok
    /\ \/ e.op \in EmbedOps
       \/ e.op = "import" /\ e.arg = <<"version">>

EmbedFailed == \E i \in 1..Len(events) : IsEmbedFailure(events[i])

Finished == outcome.kind # "running"

FromTier3 == outcome.line = 46

\* the texts of a .version file holding a record whose version_string is v
RecordTexts(v) ==
    { <<Tok("{"), StrTok("version_string"), Tok(":"), StrTok(v), Tok("}")>>,
      <<Tok("{"), StrTok("git_describe"), Tok(":"), StrTok("v9"), Tok(","),
        StrTok("version_string"), Tok(":"), StrTok(v), Tok("}")>> }

\* texts that are no JSON document
MalformedTexts ==
    { <<>>,
      <<Tok("{"), StrTok("version_string"), Tok(":"), StrTok("1.2.3")>>,
      <<Tok("{"), StrTok("version_string"), StrTok("1.2.3"), Tok("}")>> }

\* JSON documents without a version_string field
LackingTexts ==
    { <<Tok("{"), Tok("}")>>,
      <<Tok("{"), StrTok("version"), Tok(":"), StrTok("1.2.3"), Tok("}")>>,
      <<Tok("["), StrTok("1.2.3"), Tok("]")>>,
      <<StrTok("1.2.3")>> }

----------------------------------------------------------------------------
(* Claims *)

\* C1: the tiers are tried in the order 1, 2, 3 and the first available one
\* gives the result: when param.version imports, neither the fetch nor the
\* .version read happens and the outcome is that helper's setup_version;
\* the fetch is attempted only after the import failed; the .version file is
\* read only after the import and embed_version both failed; a fetched helper
\* is called with the same arguments (basepath, reponame, archive_commit).
C1_TierOrder ==
    /\ ParamImported =>
          /\ \A i \in 1..Len(events) : events[i].op \notin EmbedOps \cup {"read"}
          /\ ~EmbedImported
    /\ \A i \in 1..Len(events) :
          events[i].op = "urlopen" =>
             \E j \in 1..(i-1) : events[j] = Ev("import", <<"param.version">>, FALSE)
    /\ \A i \in 1..Len(events) :
          events[i].op = "read" =>
             /\ \E j \in 1..(i-1) : events[j] = Ev("import", <<"param.version">>, FALSE)
             /\ \E j \in 1..(i-1) : IsEmbedFailure(events[j])
             /\ ~EmbedImported
    /\ \A i \in 1..Len(events) :
          events[i].op = "setup_version" =>
             /\ SubSeq(events[i].arg, 2, 4) = <<"base", "EarthSim", "$Format:%h$">>
             /\ events[i].arg[1] =
                   IF ParamImported THEN "param.version" ELSE "version"
             /\ ~ParamImported => EmbedImported
    /\ Finished /\ (ParamImported \/ EmbedImported) =>
          /\ outcome.line = 43
          /\ \E i \in 1..Len(events) :
                /\ events[i].op = "setup_version"
                /\ outcome.kind = "return" => outcome.val = PyStr(events[i].arg[5])
                /\ outcome.kind = "raise" => events[i].arg[5] = "raise"

C1_Witness ==
    /\ pc = "done"
    /\ EmbedImported
    /\ outcome = Return(PyStr("1.2.3"), 43)

\* C2: whichever step of embed_version fails (the request, the archive, the
\* extraction, the file write or the import), embed_version returns None
\* without raising and get_setup_version goes on to the .version file.
C2_EmbedFailureFallsThrough ==
    EmbedFailed =>
       /\ version = None
       /\ pc \in {"L42", "L45", "L46", "L103", "L114", "done", "raised"}
       /\ Finished => FromTier3 /\ Happened("read", outcome.kind = "return")

C2_Witness ==
    /\ Happened("import", FALSE)
    /\ \E i \in 1..Len(events) : events[i] = Ev("import", <<"version">>, FALSE)
    /\ outcome = Return(PyStr("1.2.3"), 46)

\* C3: every failure inside tier 1 or tier 2, the helper's setup_version
\* included, degrades to the next tier: an error reaches the caller only
\* from the read of the .version file.
C3_OnlyTier3Raises ==
    outcome.kind = "raise" => FromTier3

\* C4: with no installed helper and a failed fetch, a .version file of the
\* package holding a record whose version_string is v makes
\* get_setup_version return exactly v.
C4_PersistedVersionReturned ==
    \A v \in Versions :
       ( /\ ParamMissing
         /\ EmbedFailed
         /\ Finished
         /\ disk0[<<"base", "EarthSim", ".version">>].exists
         /\ disk0[<<"base", "EarthSim", ".version">>].text \in RecordTexts(v) )
       => outcome = Return(PyStr(v), 46)

C4_Witness ==
    /\ ParamMissing
    /\ EmbedFailed
    /\ disk0[<<"base", "EarthSim", ".version">>].text \in RecordTexts("0.1.0-4-gabc")
    /\ disk0[<<"base", ".version">>].exists
    /\ outcome = Return(PyStr("0.1.0-4-gabc"), 46)

\* C5: with tiers 1 and 2 unavailable and the .version file missing, not
\* valid JSON or without a version_string field, get_setup_version ends in
\* an error raised to the caller, and no version is put in the metadata.
C5_BadVersionFileRaises ==
    ( /\ ParamMissing
      /\ EmbedFailed
      /\ Finished
      /\ \/ ~disk0[<<"base", "EarthSim", ".version">>].exists
         \/ disk0[<<"base", "EarthSim", ".version">>].text
               \in MalformedTexts \cup LackingTexts )
    => /\ outcome.kind = "raise"
       /\ FromTier3
       /\ pc = "raised"
       /\ setup_args = EmptyArgs
       /\ handed = EmptyArgs

C5_Witness ==
    /\ ParamMissing
    /\ EmbedFailed
    /\ disk0[<<"base", "EarthSim", ".version">>].text \in LackingTexts
    /\ outcome = Raise("KeyError", 46)

\* C6 as stated: whenever the import of param.version fails, the warning is
\* printed during the run, whether tier 2 or tier 3 then gives the version.
C6_WarningPastTier1 ==
    ParamMissing /\ Finished => stdout # <<>>

\* C6 amended: whenever the import of param.version fails and embed_version
\* returns None, the warning is printed during the run, before the version
\* is obtained from tier 3.
C6_WarningPastTier2 ==
    ParamMissing /\ EmbedFailed /\ Finished => stdout = <<WARNING>>

C6_Witness ==
    /\ ParamMissing
    /\ EmbedFailed
    /\ outcome.kind = "return"
    /\ stdout = <<WARNING>>

\* C7: the record handed to setup keeps the partition of the dependencies:
\* install_requires is the mandatory list, extras_require has exactly the
\* groups tests and docs with their own entries, none of them in the
\* mandatory list, and tests_require is the tests group.
C7_PartitionKept ==
    pc = "done" /\ handed.name = "earthsim" =>
       /\ handed.install_requires = install_requires
       /\ DOMAIN handed.extras_require = {"tests", "docs"}
       /\ handed.extras_require["tests"] = <<"nbsmoke">>
       /\ handed.extras_require["docs"] = <<"nbsite">>
       /\ \A i \in 1..Len(handed.install_requires) :
             handed.install_requires[i] \notin {"nbsmoke", "nbsite"}
       /\ handed.tests_require = handed.extras_require["tests"]

C7_Witness ==
    /\ pc = "done"
    /\ handed.name = "earthsim"
    /\ handed.version = PyStr("1.2.3")

\* C8: every string literal of the install_requires source is its own
\* element of the list: none fused with its neighbour, none missing.
C8_OneElementPerLiteral ==
    pc \in {"L114", "done"} =>
       /\ Len(setup_args.install_requires) = Len(install_requires_source)
       /\ \A i \in 1..Len(install_requires_source) :
             \E j \in 1..Len(setup_args.install_requires) :
                setup_args.install_requires[j] = install_requires_source[i].lit

\* C9: the warning is printed at most once in a run, only when both the
\* installed and the fetched helper are unavailable, and before the .version
\* file is read: a failure of tier 3 comes after the warning, and a run that
\* gets its version from tier 1 or tier 2 prints nothing.
C9_WarningOnceBeforeRead ==
    /\ Len(stdout) <= 1
    /\ stdout # <<>> => ParamMissing /\ EmbedFailed /\ ~EmbedImported /\ version = None
    /\ \A i \in 1..Len(events) :
          events[i].op = "read" =>
             \E j \in 1..(i-1) : events[j] = Ev("print", <<WARNING>>, TRUE)
    /\ pc = "L46" => stdout = <<WARNING>>
    /\ Finished /\ FromTier3 => stdout = <<WARNING>>
    /\ Finished /\ outcome.line = 43 => stdout = <<>>

C9_Witness ==
    /\ outcome = Raise("FileNotFoundError", 46)
    /\ stdout = <<WARNING>>

====
